---------------------------- MODULE Spec2Model ----------------------------
(***************************************************************************)
(* The stream state of the RatOS G-code post processor (State.ts) with the *)
(* line-processing step, the bookmark registry and the finalization step   *)
(* that drive it.                                                          *)
(*                                                                         *)
(* State.ts holds the fields, resetIterationState and the gcodeInfo        *)
(* accessors.  The per-line step, the bookmark registry and finalization   *)
(* live in other files of the repository; they are modelled from the       *)
(* design document (spec.md sections 2, 4.1, 4.2, 4.3).                    *)
(*                                                                         *)
(* The file-changes list of the setup wizard (FileChanges, ChangedFile) is *)
(* a second, independent program; it has specifications of its own.        *)
(***************************************************************************)
EXTENDS Integers, Sequences, FiniteSets

(***************************************************************************)
(* Bounds.                                                                 *)
(***************************************************************************)
\* Input lines fed to one run.
MaxLines == 4

\* Directives of a configuration section.
MaxConfigEntries == 2

(***************************************************************************)
(* Values.                                                                 *)
(***************************************************************************)
\* JavaScript's undefined, for the optional string-like fields.
Undefined == "undefined"

\* The Info Aggregates (MutableGCodeInfo objects) a run may attach.
GCodeInfos == {"infoA", "infoB"}

\* A JavaScript number x + eps * 5e-324 for the few doubles the model needs:
\* the coordinates are whole numbers, Number.MIN_VALUE is the smallest
\* positive double, below every positive coordinate and above zero.
Num(n) == [int |-> n, eps |-> 0]

\* Number.MAX_VALUE (about 1.8e308), above every coordinate of the model.
NumberMAX_VALUE == [int |-> 1000, eps |-> 0]

\* Number.MIN_VALUE (5e-324): the smallest POSITIVE double.
NumberMIN_VALUE == [int |-> 0, eps |-> 1]

\* a < b on these numbers.
Less(a, b) == a.int < b.int \/ (a.int = b.int /\ a.eps < b.eps)

MathMin(a, b) == IF Less(b, a) THEN b ELSE a

MathMax(a, b) == IF Less(a, b) THEN b ELSE a

\* The input alphabet: two moves, three tool changes, one line that is no
\* command.
Lines == {"G1 X5", "G1 X-3", "T0", "T1", "T2", "; comment"}

\* The texts a bookmark is resolved to.
NewTexts == {"; patched 1", "; patched 2"}

\* _cmd before classification / for a line that is no command.
CmdUndefined == [kind |-> "undefined", x |-> 0, tool |-> ""]

\* The tokenizer (an external collaborator) on the input alphabet: the
\* command of a line, CmdUndefined for a line that is none.
ParseCommand(line) ==
    CASE line = "G1 X5"  -> [kind |-> "G1", x |-> 5, tool |-> ""]
      [] line = "G1 X-3" -> [kind |-> "G1", x |-> -3, tool |-> ""]
      [] line = "T0"     -> [kind |-> "T", x |-> 0, tool |-> "0"]
      [] line = "T1"     -> [kind |-> "T", x |-> 0, tool |-> "1"]
      [] line = "T2"     -> [kind |-> "T", x |-> 0, tool |-> "2"]
      [] OTHER           -> CmdUndefined

Classifiable(line) == ParseCommand(line) # CmdUndefined

\* No bookmark key (keys are indices into the slot table, from 1).
NoKey == 0

\* An unset BookmarkedLine field.
NoBookmarkedLine == [line |-> Undefined, bookmark |-> NoKey]

\* new BookmarkedLine(line, bookmark) that drops the text.
BookmarkedLineWithoutText(line, bookmark) ==
    [line |-> Undefined, bookmark |-> bookmark]

\* new BookmarkedLine(line, bookmark): the text as emitted, and its key.
BookmarkedLine(line, bookmark) == [line |-> line, bookmark |-> bookmark]

\* No error: the operation returned.
NoError == "none"

\* The error kinds.
InternalError == "InternalError"
StateAlreadyFinalized == "state already finalized"
BookmarkAlreadyResolved == "bookmark already resolved"
BookmarkUnknown == "bookmark unknown"

(***************************************************************************)
(* State.                                                                  *)
(***************************************************************************)
VARIABLES
    kPrinterHasIdex,            \* run configuration, readonly; no step of
                                \* the model reads it, and the runs modelled
                                \* are those of a printer without IDEX
    currentLineNumber,
    firstLine,                  \* a BookmarkedLine, or NoBookmarkedLine
    toolChangeCount,
    minX,
    maxX,
    processingHasBeenFinalized,
    usedTools,
    _cmd,                       \* iteration scope
    hashGcodeInfo,              \* the private field #gcodeInfo
    slots,                      \* the bookmark registry's slot table
    output,                     \* the lines emitted, in order
    processed,                  \* history: the input lines processed
    result,                     \* the last operation and how it ended
    configSection,              \* the Map, in insertion order, or unset
    view,                       \* what configSectionAsObject last returned
    filesToOverwrite,           \* FileChanges: useState<string[]>
    filesToIgnore,              \* FileChanges: useState<string[]>
    lastAction                  \* FileChanges: the last call or menu action

\* The stream-scope fields of State.
streamVars == <<currentLineNumber, firstLine, toolChangeCount, minX, maxX,
                configSection, processingHasBeenFinalized, usedTools>>

\* Everything but the record of the last operation.
stateVars == <<kPrinterHasIdex, streamVars, _cmd, hashGcodeInfo, slots, output,
               processed>>

\* The state of the file-changes list.
fileVars == <<filesToOverwrite, filesToIgnore, lastAction>>

\* What no operation of the G-code run touches.
otherVars == <<view, fileVars>>

vars == <<stateVars, result, view, fileVars>>

\* An unset configSection.
ConfigSectionUnset == [set |-> FALSE, entries |-> <<>>]

\* configSectionAsObject has not been read yet.
NoView == [read |-> FALSE, defined |-> FALSE, props |-> <<>>]

\* No file: the file of a call made outside any ChangedFile row.
NoFile == [fileName |-> "none", state |-> "unchanged", overwrite |-> FALSE,
           exists |-> FALSE, changedFromConfig |-> "undefined"]

\* No call or menu action yet.
NoAction == [title |-> "none", fileName |-> "none", file |-> NoFile,
             isMarkedIgnored |-> FALSE, isMarkedOverwritten |-> FALSE]

\* currentLineNumber starting at the number of a second line.
CurrentLineNumberInitOne == Len(<<"G1 X5">>)

\* currentLineNumber starting at 0 instead of the sentinel.
CurrentLineNumberInitZero == Len(<<>>)

\* The declared defaults of State's fields.
CurrentLineNumberInit == -1

\* toolChangeCount starting at one, as if the initial tool were a change.
ToolChangeCountInitOne == Len(<<"T0">>)

ToolChangeCountInit == 0

MinXInit == NumberMAX_VALUE

MaxXInit == NumberMIN_VALUE

\* processingHasBeenFinalized starting set.
ProcessingHasBeenFinalizedInitSet == TRUE

ProcessingHasBeenFinalizedInit == FALSE

\* usedTools starting with tool 0 already listed.
UsedToolsInitSeeded == <<"0">>

UsedToolsInit == <<>>

\* The record of an operation that returned `value`.
Returned(op, value) ==
    [op |-> op, error |-> NoError, value |-> value, key |-> NoKey]

\* The record of an operation that threw `error`.
Threw(op, error) ==
    [op |-> op, error |-> error, value |-> Undefined, key |-> NoKey]

\* The record of resolve(key, newText), which ended with `error`.
Resolved(key, newText, error) ==
    [op |-> "resolve", error |-> error, value |-> newText, key |-> key]

Init ==
    /\ kPrinterHasIdex = FALSE
    /\ currentLineNumber = CurrentLineNumberInit
    /\ firstLine = NoBookmarkedLine
    /\ toolChangeCount = ToolChangeCountInit
    /\ minX = MinXInit
    /\ maxX = MaxXInit
    /\ processingHasBeenFinalized = ProcessingHasBeenFinalizedInit
    /\ usedTools = UsedToolsInit
    /\ _cmd = CmdUndefined
    /\ hashGcodeInfo = Undefined
    /\ slots = <<>>
    /\ output = <<>>
    /\ processed = <<>>
    /\ result = Returned("new State", Undefined)
    /\ configSection = ConfigSectionUnset
    /\ view = NoView
    /\ filesToOverwrite = <<>>
    /\ filesToIgnore = <<>>
    /\ lastAction = NoAction

(***************************************************************************)
(* State.ts: the methods and accessors.                                    *)
(***************************************************************************)
\* resetIterationState() with the assignment lost: _cmd keeps its value.
ResetIterationStateCmdKept(cmd) == cmd

\* resetIterationState(): the value _cmd is given.
ResetIterationStateCmd(cmd) == CmdUndefined

\* get gcodeInfo without its guard: the field as it is.
GcodeInfoGetUnguarded == Returned("get gcodeInfo", hashGcodeInfo)

\* get gcodeInfo: throws InternalError until the field is set.
GcodeInfoGet ==
    IF hashGcodeInfo = Undefined
    THEN Threw("get gcodeInfo", InternalError)
    ELSE Returned("get gcodeInfo", hashGcodeInfo)

\* set gcodeInfo that keeps the aggregate attached first.
GcodeInfoSetOnce(current, value) ==
    IF current = Undefined THEN value ELSE current

\* set gcodeInfo: the field after the assignment, whatever it held.
GcodeInfoSet(current, value) == value

\* get gcodeInfoOrUndefined: the field as it is.
GcodeInfoOrUndefinedGet == Returned("get gcodeInfoOrUndefined", hashGcodeInfo)

\* A caller calls resetIterationState().
ResetIterationState ==
    /\ _cmd' = ResetIterationStateCmd(_cmd)
    /\ result' = Returned("resetIterationState", Undefined)
    /\ UNCHANGED <<kPrinterHasIdex, streamVars, hashGcodeInfo, slots, output,
                   processed>>
    /\ UNCHANGED otherVars

\* A caller reads state.gcodeInfo.
GetGcodeInfo ==
    /\ result' = GcodeInfoGet
    /\ UNCHANGED stateVars
    /\ UNCHANGED otherVars

\* A caller reads state.gcodeInfoOrUndefined.
GetGcodeInfoOrUndefined ==
    /\ result' = GcodeInfoOrUndefinedGet
    /\ UNCHANGED stateVars
    /\ UNCHANGED otherVars

\* A caller assigns state.gcodeInfo = value; the assignment evaluates to
\* the value assigned.
SetGcodeInfo(value) ==
    /\ hashGcodeInfo' = GcodeInfoSet(hashGcodeInfo, value)
    /\ result' = Returned("set gcodeInfo", value)
    /\ UNCHANGED <<kPrinterHasIdex, streamVars, _cmd, slots, output, processed>>
    /\ UNCHANGED otherVars

(***************************************************************************)
(* The bookmark registry (spec.md 4.1, 9): an append-only slot table; a    *)
(* key is the index of its slot.                                           *)
(***************************************************************************)
\* createBookmark(lineText): the slot table with the line's slot added.
CreateBookmarkSlots(table, lineText) ==
    Append(table, [text |-> lineText, resolved |-> FALSE])

\* createBookmark(lineText): the key minted, the index of the new slot.
CreateBookmarkKey(table) == Len(table) + 1

\* resolve(key, newText) that does not look at the slot's resolved mark.
ResolveErrorRepeatable(table, finalized, key) ==
    IF key \notin 1..Len(table) THEN BookmarkUnknown
    ELSE IF finalized THEN StateAlreadyFinalized
    ELSE NoError

\* resolve(key, newText): the error it fails with, NoError when it succeeds.
\* The key is looked up first; a live key is refused once the state has
\* finalized.
ResolveError(table, finalized, key) ==
    IF key \notin 1..Len(table) THEN BookmarkUnknown
    ELSE IF table[key].resolved THEN BookmarkAlreadyResolved
    ELSE IF finalized THEN StateAlreadyFinalized
    ELSE NoError

\* resolve(key, newText): the slot table after a successful resolve.
ResolveSlots(table, key, newText) ==
    [table EXCEPT ![key] = [text |-> newText, resolved |-> TRUE]]

\* The text of output line i as the run leaves it: a bookmarked line shows
\* its slot's text.
Rendered(i) ==
    IF output[i].bookmark = NoKey THEN output[i].line
    ELSE slots[output[i].bookmark].text

\* The output stream as the run leaves it.
FinalOutput == [i \in 1..Len(output) |-> Rendered(i)]

\* A caller resolves a bookmark.
Resolve(key, newText) ==
    LET error == ResolveError(slots, processingHasBeenFinalized, key) IN
    /\ slots' = IF error = NoError THEN ResolveSlots(slots, key, newText)
                ELSE slots
    /\ result' = Resolved(key, newText, error)
    /\ UNCHANGED <<kPrinterHasIdex, streamVars, _cmd, hashGcodeInfo, output,
                   processed>>
    /\ UNCHANGED otherVars

(***************************************************************************)
(* The per-line step (spec.md 2, 4.2, 4.3): reset the iteration state,     *)
(* count the line, classify it, run the actions, emit the line.            *)
(***************************************************************************)
\* Classification: _cmd becomes the line's command, and is left as the reset
\* made it for a line that is no command.
Classify(cmd, line) == IF Classifiable(line) THEN ParseCommand(line) ELSE cmd

\* currentLineNumber after one more line.
NextLineNumber(n) == n + 1

\* usedTools after a change to `tool`: appended on first use only.
UseTool(tools, tool) ==
    IF \E i \in 1..Len(tools) : tools[i] = tool THEN tools
    ELSE Append(tools, tool)

\* toolChangeCount after a line whose command is cmd.
CountToolChange(count, cmd) == IF cmd.kind = "T" THEN count + 1 ELSE count

\* The error the step fails with: the state must not have finalized, and the
\* actions read the Info Aggregate through the non-optional accessor.
ProcessLineError ==
    IF processingHasBeenFinalized THEN StateAlreadyFinalized
    ELSE GcodeInfoGet.error

\* The driver feeds one line; with `bookmark` the first-line action asks for
\* the first line of the file to be bookmarked.
ProcessLine(line, bookmark) ==
    /\ Len(processed) < MaxLines
    /\ UNCHANGED otherVars
    /\ IF ProcessLineError # NoError
       THEN /\ result' = Threw("processLine", ProcessLineError)
            /\ UNCHANGED stateVars
       ELSE LET cmd == Classify(ResetIterationStateCmd(_cmd), line)
                marks == bookmark /\ NextLineNumber(currentLineNumber) = 0
                key == IF marks THEN CreateBookmarkKey(slots) ELSE NoKey
            IN  /\ _cmd' = cmd
                /\ currentLineNumber' = NextLineNumber(currentLineNumber)
                /\ minX' = IF cmd.kind = "G1" THEN MathMin(minX, Num(cmd.x))
                           ELSE minX
                /\ maxX' = IF cmd.kind = "G1" THEN MathMax(maxX, Num(cmd.x))
                           ELSE maxX
                /\ toolChangeCount' = CountToolChange(toolChangeCount, cmd)
                /\ usedTools' = IF cmd.kind = "T" THEN UseTool(usedTools, cmd.tool)
                                ELSE usedTools
                /\ slots' = IF marks THEN CreateBookmarkSlots(slots, line)
                            ELSE slots
                /\ firstLine' = IF marks THEN BookmarkedLine(line, key)
                                     ELSE firstLine
                /\ output' = Append(output, [line |-> line, bookmark |-> key])
                /\ processed' = Append(processed, line)
                /\ result' = Returned("processLine", Undefined)
                /\ UNCHANGED <<kPrinterHasIdex, processingHasBeenFinalized,
                               hashGcodeInfo, configSection>>

\* The driver ends the pass: the one-way transition to Finalized.  A bookmark
\* never resolved keeps its slot as it is.
Finalize ==
    /\ UNCHANGED otherVars
    /\ IF processingHasBeenFinalized
       THEN /\ result' = Threw("finalize", StateAlreadyFinalized)
            /\ UNCHANGED stateVars
       ELSE /\ processingHasBeenFinalized' = TRUE
            /\ result' = Returned("finalize", Undefined)
            /\ UNCHANGED <<kPrinterHasIdex, currentLineNumber, firstLine,
                           toolChangeCount, minX, maxX, configSection, usedTools,
                           _cmd, hashGcodeInfo, slots, output, processed>>

Next ==
    \/ ResetIterationState
    \/ GetGcodeInfo
    \/ GetGcodeInfoOrUndefined
    \/ \E value \in GCodeInfos : SetGcodeInfo(value)
    \/ \E line \in Lines, bookmark \in BOOLEAN : ProcessLine(line, bookmark)
    \/ \E key \in 1..(Len(slots) + 1), newText \in NewTexts : Resolve(key, newText)
    \/ Finalize

Spec == Init /\ [][Next]_vars

(***************************************************************************)
(* Properties.                                                             *)
(***************************************************************************)
\* The last element of a non-empty sequence.
Last(seq) == seq[Len(seq)]

\* The last operation was `op` and it returned.
Did(op) == result.op = op /\ result.error = NoError

\* C1: while no Info Aggregate is attached, reading gcodeInfo fails with
\* InternalError and reading gcodeInfoOrUndefined returns undefined without
\* failing; neither read changes any state.
C1_AccessBeforeAttach ==
    [][/\ (result'.op = "get gcodeInfo" /\ hashGcodeInfo = Undefined)
           => result'.error = InternalError
       /\ (result'.op = "get gcodeInfoOrUndefined" /\ hashGcodeInfo = Undefined)
           => (result'.error = NoError /\ result'.value = Undefined)
       /\ result'.op \in {"get gcodeInfo", "get gcodeInfoOrUndefined"}
           => UNCHANGED stateVars]_vars

\* C1's case: gcodeInfo was read before any attachment, and the read threw.
C1_Witness ==
    /\ hashGcodeInfo = Undefined
    /\ result.op = "get gcodeInfo"
    /\ result.error = InternalError

\* C2: a line that is no command is processed with _cmd absent, whatever
\* the line before it was classified as: never with that line's command.
C2_IterationIsolation ==
    (Did("processLine") /\ ~Classifiable(Last(processed)))
        => _cmd = CmdUndefined

\* C2's case: line A was a command, line B after it is none, and B has just
\* been processed.
C2_Witness ==
    /\ Did("processLine")
    /\ Len(processed) >= 2
    /\ Classifiable(processed[Len(processed) - 1])
    /\ ~Classifiable(Last(processed))

\* The operations that mutate Stream State or resolve a bookmark.
MutatingOps == {"set gcodeInfo", "processLine", "resolve", "finalize"}

\* C3: once processingHasBeenFinalized is true, every attempt to mutate a
\* Stream State field or the gcodeInfo attachment, or to resolve a bookmark,
\* fails with an error, leaves every field unchanged, and the state remains
\* finalized.
C3_PostFinalizationMutationFails ==
    [][(processingHasBeenFinalized /\ result'.op \in MutatingOps)
          => /\ result'.error # NoError
             /\ UNCHANGED <<streamVars, hashGcodeInfo, slots, output>>
             /\ processingHasBeenFinalized']_vars

\* C4: processingHasBeenFinalized is false in a new State, is set only by
\* the finalization step, and once true it never goes back to false.
C4_FinalizedOnceIrreversibly ==
    /\ [](result.op = "new State" => ~processingHasBeenFinalized)
    /\ [][(processingHasBeenFinalized => processingHasBeenFinalized')
          /\ ((processingHasBeenFinalized' # processingHasBeenFinalized)
                 => (result'.op = "finalize" /\ result'.error = NoError))]_vars

\* C4's case: the state has finalized and an operation has followed.
C4_Witness ==
    /\ processingHasBeenFinalized
    /\ Did("set gcodeInfo")

\* C5 as stated: after line i (1-indexed) currentLineNumber equals i.
C5_LineNumberOneBased ==
    Did("processLine") => currentLineNumber = Len(processed)

\* C5, amended: after line i (1-indexed) currentLineNumber equals i - 1; the
\* counter starts at -1 and numbers the lines from 0.
C5_LineNumberZeroBased == currentLineNumber = Len(processed) - 1

\* C5's case: three lines have been processed.
C5_Witness ==
    /\ Did("processLine")
    /\ Len(processed) = 3
    /\ currentLineNumber = 2
\* The X values of the moves among `lines`.
ObservedX(lines) ==
    {ParseCommand(lines[i]).x :
        i \in {j \in 1..Len(lines) : ParseCommand(lines[j]).kind = "G1"}}

\* The smallest and the largest element of a non-empty set of integers.
Smallest(S) == CHOOSE x \in S : \A y \in S : x <= y

Largest(S) == CHOOSE x \in S : \A y \in S : y <= x

\* C6: minX is the smallest and maxX the largest X observed, whatever the
\* sign of the X values; with no X move both keep their initial values.
C6_BoundingBox ==
    LET xs == ObservedX(processed) IN
    IF xs = {} THEN minX = MinXInit /\ maxX = MaxXInit
    ELSE minX = Num(Smallest(xs)) /\ maxX = Num(Largest(xs))

\* The tools of the tool-change commands among `lines`, in order.
ToolChanges(lines) ==
    LET changes == SelectSeq(lines, LAMBDA l : ParseCommand(l).kind = "T")
    IN  [i \in 1..Len(changes) |-> ParseCommand(changes[i]).tool]

\* The index of the first occurrence of t in seq.
FirstIndex(seq, t) ==
    CHOOSE i \in 1..Len(seq) :
        seq[i] = t /\ \A j \in 1..(i - 1) : seq[j] # t

\* seq is an initial part of longer.
IsPrefix(seq, longer) ==
    Len(seq) <= Len(longer) /\ SubSeq(longer, 1, Len(seq)) = seq

\* C7: usedTools holds each tool that occurred exactly once, ordered by
\* first occurrence, and is append-only.
C7_UsedToolsFirstUseOrder ==
    /\ [](LET changes == ToolChanges(processed) IN
          /\ {usedTools[i] : i \in 1..Len(usedTools)}
                = {changes[i] : i \in 1..Len(changes)}
          /\ \A i, j \in 1..Len(usedTools) :
                i < j => FirstIndex(changes, usedTools[i])
                           < FirstIndex(changes, usedTools[j]))
    /\ [][IsPrefix(usedTools, usedTools')]_vars

\* C7's case: the tool sequence 0,1,0,2 has been processed.
C7_Witness ==
    /\ ToolChanges(processed) = <<"0", "1", "0", "2">>
    /\ usedTools = <<"0", "1", "2">>

\* C8: toolChangeCount starts at 0, changes only in a step that processes a
\* tool-change command, where it increases; the lines G1 X5, T1, G1 X-3, T0
\* with dual-extruder mode disabled end with toolChangeCount = 2,
\* usedTools = ["1","0"], minX = -3 and maxX = 5.
C8_ToolChangeCount ==
    /\ [](result.op = "new State" => toolChangeCount = 0)
    /\ []((processed = <<"G1 X5", "T1", "G1 X-3", "T0">> /\ ~kPrinterHasIdex)
            => /\ toolChangeCount = 2
               /\ usedTools = <<"1", "0">>
               /\ minX = Num(-3)
               /\ maxX = Num(5))
    /\ [][(toolChangeCount' # toolChangeCount)
            => /\ result'.op = "processLine"
               /\ result'.error = NoError
               /\ processed' # processed
               /\ ParseCommand(Last(processed')).kind = "T"
               /\ toolChangeCount' > toolChangeCount]_vars

\* C8's case: the four lines of the scenario have been processed and the
\* pass has ended.
C8_Witness ==
    /\ processed = <<"G1 X5", "T1", "G1 X-3", "T0">>
    /\ ~kPrinterHasIdex
    /\ processingHasBeenFinalized

\* C9: a key is resolved at most once.  A resolve of a live key before
\* finalization rewrites its line; a resolve of a key already resolved
\* fails with "bookmark already resolved" and a resolve of a key that was
\* never minted fails with "bookmark unknown", both changing no line; the
\* text of a resolved line never changes again.
C9_ResolveAtMostOnce ==
    [][/\ \A k \in 1..Len(slots) : slots[k].resolved => slots'[k] = slots[k]
       /\ result'.op = "resolve" =>
            LET key == result'.key IN
            /\ (key \in 1..Len(slots) /\ ~slots[key].resolved
                   /\ ~processingHasBeenFinalized)
                 => /\ result'.error = NoError
                    /\ slots' = [slots EXCEPT ![key] =
                                    [text |-> result'.value, resolved |-> TRUE]]
            /\ (key \in 1..Len(slots) /\ slots[key].resolved)
                 => (result'.error = BookmarkAlreadyResolved /\ slots' = slots)
            /\ key \notin 1..Len(slots)
                 => (result'.error = BookmarkUnknown /\ slots' = slots)
            /\ output' = output]_vars

\* C9's case: a second resolve of the same key, with another text, has
\* failed and the line shows the first resolution's text.
C9_Witness ==
    /\ result.op = "resolve"
    /\ result.error = BookmarkAlreadyResolved
    /\ slots[result.key].resolved
    /\ slots[result.key].text # result.value

ConfigKeys == {"b", "a", "2", "1"}

\* Raw payloads.
ConfigValues == {"x", "y"}

\* Whether a property key is a canonical array index.
IsArrayIndex(key) == key \in {"1", "2"}

\* The number an array-index key stands for.
ArrayIndex(key) == IF key = "1" THEN 1 ELSE 2

\* Whether the entry list holds `key`.
HasKey(entries, key) == \E i \in 1..Len(entries) : entries[i].key = key

\* seq with `e` put in before position i.
InsertAt(seq, i, e) ==
    SubSeq(seq, 1, i - 1) \o <<e>> \o SubSeq(seq, i, Len(seq))

\* Map.prototype.set: a present key keeps its place and takes the value, a
\* new key goes last.
MapSet(entries, key, value) ==
    IF HasKey(entries, key)
    THEN [i \in 1..Len(entries) |->
            IF entries[i].key = key THEN [key |-> key, value |-> value]
            ELSE entries[i]]
    ELSE Append(entries, [key |-> key, value |-> value])

\* CreateDataProperty on a plain object whose own properties, in the order
\* the object enumerates them, are props: array-index keys come first, by
\* ascending number, then the other keys in the order of their creation.
DefineProperty(props, key, value) ==
    IF HasKey(props, key)
    THEN [i \in 1..Len(props) |->
            IF props[i].key = key THEN [key |-> key, value |-> value]
            ELSE props[i]]
    ELSE IF ~IsArrayIndex(key)
    THEN Append(props, [key |-> key, value |-> value])
    ELSE LET before == {i \in 1..Len(props) :
                            /\ IsArrayIndex(props[i].key)
                            /\ ArrayIndex(props[i].key) < ArrayIndex(key)}
         IN  InsertAt(props, Cardinality(before) + 1,
                      [key |-> key, value |-> value])

\* Object.fromEntries(entries): the properties of the object built.
RECURSIVE ObjectFromEntries(_)
ObjectFromEntries(entries) ==
    IF entries = <<>> THEN <<>>
    ELSE LET last == entries[Len(entries)]
         IN  DefineProperty(ObjectFromEntries(SubSeq(entries, 1, Len(entries) - 1)),
                            last.key, last.value)

\* configSectionAsObject with an empty object standing in for undefined.
ConfigSectionAsObjectOrEmpty ==
    [read |-> TRUE, defined |-> TRUE,
     props |-> ObjectFromEntries(configSection.entries)]

\* get configSectionAsObject: undefined while configSection is unset, else
\* Object.fromEntries of its entries.
ConfigSectionAsObject ==
    IF configSection.set
    THEN [read |-> TRUE, defined |-> TRUE,
          props |-> ObjectFromEntries(configSection.entries)]
    ELSE [read |-> TRUE, defined |-> FALSE, props |-> <<>>]

\* What no operation on configSection touches.
nonConfigVars == <<kPrinterHasIdex, currentLineNumber, firstLine,
                   toolChangeCount, minX, maxX, processingHasBeenFinalized,
                   usedTools, _cmd, hashGcodeInfo, slots, output, processed,
                   result, fileVars>>

\* The pipeline recognizes a configuration block: configSection is a new,
\* empty Map.
RecognizeConfigSection ==
    /\ configSection' = [set |-> TRUE, entries |-> <<>>]
    /\ UNCHANGED <<view, nonConfigVars>>

\* The pipeline records a directive of the block: configSection.set(key,
\* value).
SetConfigEntry(key, value) ==
    /\ configSection.set
    /\ HasKey(configSection.entries, key)
         \/ Len(configSection.entries) < MaxConfigEntries
    /\ configSection' = [configSection EXCEPT
                            !.entries = MapSet(@, key, value)]
    /\ UNCHANGED <<view, nonConfigVars>>

\* A caller reads state.configSectionAsObject.
GetConfigSectionAsObject ==
    /\ view' = ConfigSectionAsObject
    /\ UNCHANGED <<configSection, nonConfigVars>>

NextConfig ==
    \/ RecognizeConfigSection
    \/ \E key \in ConfigKeys, value \in ConfigValues : SetConfigEntry(key, value)
    \/ GetConfigSectionAsObject

SpecConfig == Init /\ [][NextConfig]_vars

\* The positions of seq, in order, that hold a key satisfying Keep.
KeysWhere(seq, Keep(_)) ==
    LET kept == SelectSeq(seq, LAMBDA e : Keep(e.key))
    IN  [i \in 1..Len(kept) |-> kept[i].key]

\* C11 as stated: the view is undefined exactly when configSection was
\* never set, and otherwise holds exactly the mapping's keys and values in
\* insertion order; the read does not modify configSection.
C11_ViewInInsertionOrder ==
    /\ [](LET obj == ConfigSectionAsObject IN
          /\ obj.defined <=> configSection.set
          /\ configSection.set => obj.props = configSection.entries)
    /\ [][view' # view => (view' = ConfigSectionAsObject
                            /\ configSection' = configSection)]_vars

\* C11, amended: the view is undefined exactly when configSection was never
\* set (an empty section gives an empty object); otherwise it holds exactly
\* the mapping's keys with their values, the keys that are no array indices
\* in insertion order, after the array-index keys, which come in ascending
\* numeric order; the read does not modify configSection.
C11_ViewOfConfigSection ==
    /\ [](LET obj == ConfigSectionAsObject
              entries == configSection.entries
          IN
          /\ obj.defined <=> configSection.set
          /\ Len(obj.props) = Len(entries)
          /\ {obj.props[i] : i \in 1..Len(obj.props)}
                = {entries[i] : i \in 1..Len(entries)}
          /\ KeysWhere(obj.props, LAMBDA k : ~IsArrayIndex(k))
                = KeysWhere(entries, LAMBDA k : ~IsArrayIndex(k))
          /\ \A i, j \in 1..Len(obj.props) :
                (i < j /\ IsArrayIndex(obj.props[j].key))
                  => /\ IsArrayIndex(obj.props[i].key)
                     /\ ArrayIndex(obj.props[i].key)
                          < ArrayIndex(obj.props[j].key))
    /\ [][view' # view => (view' = ConfigSectionAsObject
                            /\ configSection' = configSection)]_vars

\* C11's case: the view of a section whose array-index key was set after a
\* plain one has been read.
C11_Witness ==
    /\ configSection.set
    /\ configSection.entries = <<[key |-> "b", value |-> "x"],
                                 [key |-> "1", value |-> "y"]>>
    /\ view.read
    /\ view.props = <<[key |-> "1", value |-> "y"],
                      [key |-> "b", value |-> "x"]>>
\* C12: a new State has no Info Aggregate attached and reading gcodeInfo
\* then fails; the attachment changes only at the gcodeInfo setter and never
\* goes back to absent; after an attachment, a repeated one included,
\* reading gcodeInfo succeeds and returns the aggregate attached last.
C12_AttachedOnceForGood ==
    /\ [](result.op = "new State" => hashGcodeInfo = Undefined)
    /\ [][/\ (hashGcodeInfo # Undefined) => (hashGcodeInfo' # Undefined)
          /\ (hashGcodeInfo' # hashGcodeInfo) => (result'.op = "set gcodeInfo")
          /\ (result'.op = "set gcodeInfo")
                => (hashGcodeInfo' = result'.value
                      /\ hashGcodeInfo' # Undefined)
          /\ (result'.op = "get gcodeInfo")
                => (IF hashGcodeInfo = Undefined
                    THEN result'.error = InternalError
                    ELSE result' = Returned("get gcodeInfo", hashGcodeInfo))]_vars

\* C12's case: lines were processed, so an aggregate was attached, and the
\* setter has then been called again.
C12_Witness ==
    /\ Did("set gcodeInfo")
    /\ Len(processed) >= 1
    /\ ~processingHasBeenFinalized
    /\ hashGcodeInfo = result.value

\* C13: currentLineNumber is -1 before any line is processed, each line
\* processed raises it by exactly one, and nothing else changes it: it never
\* decreases and never skips.
C13_LineNumberCountsUp ==
    /\ [](processed = <<>> => currentLineNumber = -1)
    /\ [][/\ (Len(processed') = Len(processed) + 1)
                => (currentLineNumber' = currentLineNumber + 1)
          /\ (currentLineNumber' # currentLineNumber)
                => (/\ currentLineNumber' = currentLineNumber + 1
                    /\ result'.op = "processLine"
                    /\ Len(processed') = Len(processed) + 1)]_vars

\* C13's case: two lines have been processed and the counter stands at 1.
C13_Witness ==
    /\ Did("processLine")
    /\ Len(processed) = 2
    /\ currentLineNumber = 1

\* C14: resetIterationState() sets _cmd to absent and changes nothing else:
\* the stream-scope fields, the attachment, the run configuration, the
\* bookmark registry and the output stay as they are; a second call right
\* after the first changes nothing at all.
C14_ResetTouchesOnlyCmd ==
    [][/\ (result'.op = "resetIterationState")
            => (/\ _cmd' = CmdUndefined
                /\ UNCHANGED <<kPrinterHasIdex, streamVars, hashGcodeInfo,
                               slots, output, processed>>)
       /\ (result.op = "resetIterationState"
             /\ result'.op = "resetIterationState")
            => UNCHANGED vars]_vars

\* C14's case: the line processed last left a command in _cmd, lines have
\* moved the stream-scope fields, and resetIterationState() has cleared it.
C14_Witness ==
    /\ Did("resetIterationState")
    /\ Len(processed) >= 2
    /\ Classifiable(Last(processed))
    /\ usedTools # <<>>
    /\ hashGcodeInfo # Undefined
    /\ _cmd = CmdUndefined
(***************************************************************************)
(* FileChanges and ChangedFile: the two lists of file names and the menu   *)
(* of actions each row offers.                                             *)
(***************************************************************************)
FileNames == {"RatOS.cfg", "printer.cfg", "macros.cfg"}

FileStates == {"created", "unchanged", "changed", "removed"}

\* The rows getFilesToWrite can return: changedFromConfig is optional.
Files == [fileName : FileNames, state : FileStates, overwrite : BOOLEAN,
          exists : BOOLEAN, changedFromConfig : {"true", "false", "undefined"}]

\* files.includes(fileName)
Includes(files, fileName) == \E i \in 1..Len(files) : files[i] = fileName

\* An add that appends without looking for the name.
AddFileUnchecked(files, fileName) == Append(files, fileName)

\* The updater of addFileToOverwrite and addFileToIgnore.
AddFile(files, fileName) ==
    IF Includes(files, fileName) THEN files ELSE Append(files, fileName)

\* The updater of removeFileToOverwrite and removeFileToIgnore.
RemoveFile(files, fileName) ==
    IF Includes(files, fileName)
    THEN SelectSeq(files, LAMBDA file : file # fileName)
    ELSE files

\* The derived flags of a ChangedFile render.
WouldOtherwiseBeWritten(file, isMarkedOverwritten) ==
    \/ file.state = "changed" /\ (file.overwrite \/ isMarkedOverwritten)
    \/ file.state = "created"
    \/ file.state = "removed"

IsOverwritable(file) == file.state = "changed"

IsIgnorable(file) == file.state \in {"created", "removed", "changed"}

IsOverwritten(file, isMarkedOverwritten) ==
    isMarkedOverwritten \/ (file.overwrite /\ file.exists)

NeedsExplicitAction(file, isMarkedIgnored, isMarkedOverwritten) ==
    /\ IsIgnorable(file)
    /\ ~isMarkedIgnored
    /\ ~IsOverwritten(file, isMarkedOverwritten)
    /\ ~WouldOtherwiseBeWritten(file, isMarkedOverwritten)
    /\ file.changedFromConfig = "true"

\* actions: the titles offered, in the order [skip, ignore, overwrite,
\* write, remove] with the absent ones filtered out.
Actions(file, isMarkedIgnored, isMarkedOverwritten) ==
    IF file.fileName = "RatOS.cfg" THEN <<>>
    ELSE
    LET isIgnored == isMarkedIgnored
        isOverwritten == IsOverwritten(file, isMarkedOverwritten)
        skip == IF isOverwritten /\ ~isIgnored THEN <<"Skip">> ELSE <<>>
        overwrite ==
            IF ~(isOverwritten /\ ~isIgnored) /\ IsOverwritable(file)
            THEN <<"Accept changes">> ELSE <<>>
        keep == IsIgnorable(file) /\ ~isIgnored /\ ~isOverwritten
        ignore == IF keep THEN <<"Keep existing file">> ELSE <<>>
        remove ==
            IF ~keep /\ isIgnored /\ file.state = "removed"
            THEN <<"Delete">> ELSE <<>>
        write ==
            IF /\ ~keep /\ isIgnored /\ file.state # "removed"
               /\ IsIgnorable(file) /\ ~IsOverwritable(file)
            THEN <<"Write">> ELSE <<>>
    IN  skip \o ignore \o overwrite \o write \o remove

\* Whether the menu offers the action with this title.
Offers(file, isMarkedIgnored, isMarkedOverwritten, title) ==
    Includes(Actions(file, isMarkedIgnored, isMarkedOverwritten), title)

\* Action.action with an 'Accept changes' that only adds.
ActionCallsAcceptOnlyAdds(title, isMarkedIgnored, isMarkedOverwritten) ==
    IF title = "Skip"
    THEN IF isMarkedOverwritten THEN <<"removeFileToOverwrite">>
         ELSE <<"addFileToIgnore">>
    ELSE IF title = "Accept changes" THEN <<"addFileToOverwrite">>
    ELSE IF title = "Keep existing file" THEN <<"addFileToIgnore">>
    ELSE <<"removeFileToIgnore">>

\* Action.action: the FileChanges callbacks the action with this title
\* calls, in order.
ActionCalls(title, isMarkedIgnored, isMarkedOverwritten) ==
    IF title = "Skip"
    THEN IF isMarkedOverwritten THEN <<"removeFileToOverwrite">>
         ELSE <<"addFileToIgnore">>
    ELSE IF title = "Accept changes"
    THEN IF isMarkedIgnored
         THEN <<"removeFileToIgnore", "addFileToOverwrite">>
         ELSE <<"addFileToOverwrite">>
    ELSE IF title = "Keep existing file" THEN <<"addFileToIgnore">>
    ELSE <<"removeFileToIgnore">>

\* filesToOverwrite after the calls, one state update each.
RECURSIVE OverwriteAfter(_, _, _)
OverwriteAfter(calls, files, fileName) ==
    IF calls = <<>> THEN files
    ELSE OverwriteAfter(Tail(calls),
            IF Head(calls) = "addFileToOverwrite"
            THEN AddFile(files, fileName)
            ELSE IF Head(calls) = "removeFileToOverwrite"
            THEN RemoveFile(files, fileName)
            ELSE files,
            fileName)

\* filesToIgnore after the calls, one state update each.
RECURSIVE IgnoreAfter(_, _, _)
IgnoreAfter(calls, files, fileName) ==
    IF calls = <<>> THEN files
    ELSE IgnoreAfter(Tail(calls),
            IF Head(calls) = "addFileToIgnore"
            THEN AddFile(files, fileName)
            ELSE IF Head(calls) = "removeFileToIgnore"
            THEN RemoveFile(files, fileName)
            ELSE files,
            fileName)

\* Whether the row of `file`, rendered from the two lists as they are, has
\* the action `title` in its menu.
Offered(title, file) ==
    Offers(file, Includes(filesToIgnore, file.fileName),
           Includes(filesToOverwrite, file.fileName), title)

\* onClick of the action `title` of the row of `file`: it runs
\* action.action(file.fileName) of the render that saw the two lists.
Click(title, file) ==
    LET isMarkedIgnored == Includes(filesToIgnore, file.fileName)
        isMarkedOverwritten == Includes(filesToOverwrite, file.fileName)
        calls == ActionCalls(title, isMarkedIgnored, isMarkedOverwritten)
    IN  /\ filesToOverwrite' =
              OverwriteAfter(calls, filesToOverwrite, file.fileName)
        /\ filesToIgnore' = IgnoreAfter(calls, filesToIgnore, file.fileName)
        /\ lastAction' = [title |-> title, fileName |-> file.fileName,
                          file |-> file,
                          isMarkedIgnored |-> isMarkedIgnored,
                          isMarkedOverwritten |-> isMarkedOverwritten]
        /\ UNCHANGED <<stateVars, result, view>>

\* The user picks 'Skip' in the menu of the row of `file`.
Skip(file) ==
    /\ Offered("Skip", file)
    /\ Click("Skip", file)

\* The user picks 'Keep existing file' in the menu of the row of `file`.
KeepExistingFile(file) ==
    /\ Offered("Keep existing file", file)
    /\ Click("Keep existing file", file)

\* The user picks 'Accept changes' in the menu of the row of `file`.
AcceptChanges(file) ==
    /\ Offered("Accept changes", file)
    /\ Click("Accept changes", file)

\* The user picks 'Write' in the menu of the row of `file`.
Write(file) ==
    /\ Offered("Write", file)
    /\ Click("Write", file)

\* The user picks 'Delete' in the menu of the row of `file`.
Delete(file) ==
    /\ Offered("Delete", file)
    /\ Click("Delete", file)

NextChangedFile ==
    \/ \E file \in Files : Skip(file)
    \/ \E file \in Files : KeepExistingFile(file)
    \/ \E file \in Files : AcceptChanges(file)
    \/ \E file \in Files : Write(file)
    \/ \E file \in Files : Delete(file)

SpecChangedFile == Init /\ [][NextChangedFile]_vars

\* A direct call of one of the four callbacks of FileChanges.
Call(title, fileName) ==
    /\ filesToOverwrite' =
          OverwriteAfter(<<title>>, filesToOverwrite, fileName)
    /\ filesToIgnore' = IgnoreAfter(<<title>>, filesToIgnore, fileName)
    /\ lastAction' = [NoAction EXCEPT !.title = title, !.fileName = fileName]
    /\ UNCHANGED <<stateVars, result, view>>

AddFileToOverwrite(fileName) ==
    /\ fileName \in FileNames
    /\ Call("addFileToOverwrite", fileName)

RemoveFileToOverwrite(fileName) ==
    /\ fileName \in FileNames
    /\ Call("removeFileToOverwrite", fileName)

AddFileToIgnore(fileName) ==
    /\ fileName \in FileNames
    /\ Call("addFileToIgnore", fileName)

RemoveFileToIgnore(fileName) ==
    /\ fileName \in FileNames
    /\ Call("removeFileToIgnore", fileName)

NextFileChanges ==
    \/ \E fileName \in FileNames : AddFileToOverwrite(fileName)
    \/ \E fileName \in FileNames : RemoveFileToOverwrite(fileName)
    \/ \E fileName \in FileNames : AddFileToIgnore(fileName)
    \/ \E fileName \in FileNames : RemoveFileToIgnore(fileName)

SpecFileChanges == Init /\ [][NextFileChanges]_vars

\* C15: starting from two empty lists, after any sequence of actions the
\* rows offer, on any files in any file state, no file name is in
\* filesToIgnore and in filesToOverwrite at the same time.
C15_IgnoreAndOverwriteDisjoint ==
    \A fileName \in FileNames :
        ~(Includes(filesToIgnore, fileName)
            /\ Includes(filesToOverwrite, fileName))

\* C15's case: 'Accept changes' was picked on a row that was marked
\* ignored, while another file stays ignored.
C15_Witness ==
    /\ lastAction.title = "Accept changes"
    /\ lastAction.isMarkedIgnored
    /\ Includes(filesToOverwrite, lastAction.fileName)
    /\ filesToIgnore # <<>>

\* C16: whenever a row needs explicit action, whatever its file name,
\* 'RatOS.cfg' included, its actions are not empty and hold 'Accept changes'
\* and 'Keep existing file', and either of them, once executed, leaves the
\* row no longer needing explicit action.
C16_ExplicitActionIsOffered ==
    \A file \in Files :
        LET isMarkedIgnored == Includes(filesToIgnore, file.fileName)
            isMarkedOverwritten == Includes(filesToOverwrite, file.fileName)
        IN  NeedsExplicitAction(file, isMarkedIgnored, isMarkedOverwritten)
            => \A title \in {"Accept changes", "Keep existing file"} :
                 LET calls == ActionCalls(title, isMarkedIgnored,
                                          isMarkedOverwritten)
                 IN  /\ Offers(file, isMarkedIgnored, isMarkedOverwritten,
                               title)
                     /\ ~NeedsExplicitAction(file,
                          Includes(IgnoreAfter(calls, filesToIgnore,
                                               file.fileName), file.fileName),
                          Includes(OverwriteAfter(calls, filesToOverwrite,
                                                  file.fileName), file.fileName))

\* C17: after any sequence of the four calls neither list holds a name
\* twice; an add of a name already in the list and a remove of a name not in
\* it leave the list as it is, and after a remove the name is not in the
\* list.
C17_ListsAreSets ==
    /\ [](\A i, j \in 1..Len(filesToOverwrite) :
             filesToOverwrite[i] = filesToOverwrite[j] => i = j)
    /\ [](\A i, j \in 1..Len(filesToIgnore) :
             filesToIgnore[i] = filesToIgnore[j] => i = j)
    /\ [][LET title == lastAction'.title
              fileName == lastAction'.fileName
          IN  /\ (title = "addFileToOverwrite")
                   => /\ Includes(filesToOverwrite', fileName)
                      /\ Includes(filesToOverwrite, fileName)
                           => UNCHANGED filesToOverwrite
              /\ (title = "addFileToIgnore")
                   => /\ Includes(filesToIgnore', fileName)
                      /\ Includes(filesToIgnore, fileName)
                           => UNCHANGED filesToIgnore
              /\ (title = "removeFileToOverwrite")
                   => /\ ~Includes(filesToOverwrite', fileName)
                      /\ ~Includes(filesToOverwrite, fileName)
                           => UNCHANGED filesToOverwrite
              /\ (title = "removeFileToIgnore")
                   => /\ ~Includes(filesToIgnore', fileName)
                      /\ ~Includes(filesToIgnore, fileName)
                           => UNCHANGED filesToIgnore]_vars

\* C17's case: a name has just been added to a list of two that held it
\* already.
C17_Witness ==
    /\ lastAction.title = "addFileToIgnore"
    /\ lastAction.fileName = "printer.cfg"
    /\ filesToIgnore = <<"printer.cfg", "macros.cfg">>
    /\ filesToOverwrite = <<"macros.cfg", "printer.cfg">>
=============================================================================
